---- MODULE Spec2Model ----
(***************************************************************************)
(* Model of the QafzhSolar backend: phone/OTP identity (authController,   *)
(* the User schema, checkUserVerified) and product listing moderation     *)
(* (productController, the Product schemas, the admin approval route).    *)
(*                                                                         *)
(* Time is in seconds (the code uses milliseconds; every duration in the  *)
(* code is a whole number of seconds).  A request handler that awaits the *)
(* store between its read and its write is split at the await where the   *)
(* interleaving matters (registerUser; verifyOTP in SpecVerify; the      *)
(* Admin lock in SpecAdmin); the other handlers run their find/save back  *)
(* to back.  The rate limiter, the product validator and the Admin lock   *)
(* are components of their own (SpecLimiter, SpecValidation, SpecAdmin).  *)
(***************************************************************************)
EXTENDS Integers, FiniteSets, Sequences, Bags, TLC

----------------------------------------------------------------------------
(* Bounds of the model *)

MaxUsers == 2          \* documents the User collection may hold
MaxProducts == 1       \* Product documents ever created
MaxInflight == 2       \* requests between their read and their write
MaxAttempts == 6       \* failed logins counted on the Admin document

Phones == {"p1"}              \* phones the identity requests name
ListingPhones == {"p1", "p2"} \* phones the listing requests name
Codes == {"112233", "000000"}
Reasons == {"", "blurry photos"}

----------------------------------------------------------------------------
(* Program constants *)

FixedOtp == "112233"               \* generateOTP: this.otp = '112233'
OtpLifetime == 600                 \* generateOTP: 10 * 60 * 1000 ms
ResendOtpLifetime == 300           \* checkUserVerified: 5 * 60 * 1000 ms
ProductLifetime == 7776000         \* expiresAt default: 90 days

NoOtp == "null"                    \* otp: null
NoDate == -1                       \* a Date field holding null
Absent == "absent"                 \* a body field that is not sent
Undefined == [_id |-> 0]           \* req.user when no middleware set it
NoDoc == [_id |-> 0]               \* findOne() resolving to null
NoCred == [id |-> 0, role |-> "none"]   \* request without a token

Statuses == {"pending", "approved", "rejected", "sold", "inactive"}
AdminRoles == {"admin", "super_admin", "moderator"}

\* The Admin collection: seeded, active administrators (models/admin.js).
Admins == {[_id |-> 101, role |-> "admin", isActive |-> TRUE]}
AdminCreds == {[id |-> a._id, role |-> a.role] : a \in Admins}

\* authLimiter = authRateLimit(15 * 60 * 1000, 60), keyed by req.ip.
AuthWindow == 900
AuthMax == 60
ClientKeys == {"ip1", "ip2"}
NoEntry == [count |-> 0, resetTime |-> NoDate]      \* !attempts.has(key)
NoAttempts == [key \in ClientKeys |-> NoEntry]      \* new Map()

\* adminSchema: loginAttempts default 0, lockUntil default null;
\* incLoginAttempts locks at 5 attempts for 2 hours.
LockThreshold == 5
LockLifetime == 7200
NewAdminDoc == [loginAttempts |-> 0, lockUntil |-> NoDate]

\* Instants the clock may be advanced to: around the expiry of a code
\* issued at 0, and around the expiry of a listing created at 0.
OtpClock == {0, OtpLifetime, OtpLifetime + 1}
ListingClock == {0, ProductLifetime}

VARIABLES
  users,      \* the User collection: a set of documents
  products,   \* the Product collection: a set of documents
  productSeq, \* how many Product _ids have been generated
  schema,     \* which Product schema is deployed
  tokens,     \* the JWTs signed so far (payload id, role)
  inflight,   \* bag of requests in flight: received, or past their read
              \* of the store and before their write
  now,        \* Date.now(), in seconds
  resp,       \* the response of the request served by the last step
  attempts,   \* authRateLimit's Map: client address -> {count, resetTime}
  adminDoc    \* the stored Admin document: loginAttempts, lockUntil

vars == <<users, products, productSeq, schema, tokens, inflight, now, resp,
          attempts, adminDoc>>

----------------------------------------------------------------------------
(* Responses *)

\* op: the handler; code: the HTTP status; cred, phone, id: the credential,
\* phone and document id of the request; arg: the code or status the request
\* presented; data: the ids a list query returned.
Respond(op, code, cred, phone, id) ==
  [op |-> op, code |-> code, cred |-> cred, phone |-> phone, id |-> id,
   arg |-> "", data |-> {}]

RespondArg(op, code, cred, phone, id, arg) ==
  [Respond(op, code, cred, phone, id) EXCEPT !.arg = arg]

NoResp == Respond("none", 0, NoCred, "", 0)

----------------------------------------------------------------------------
(* The User model: schema defaults, instance methods, persistence *)

\* new User({ phone, name, password, profileImageUrl }): the schema has no
\* password path, so the hash is dropped; the rest are schema defaults.
\* name and profileImageUrl take no part in any guard and are left out.
NewUser(id, phone) ==
  [_id |-> id, phone |-> phone, otp |-> NoOtp,
   otpExpires |-> NoDate, isVerified |-> FALSE, role |-> "user",
   isActive |-> TRUE, lastLogin |-> NoDate]

generateOTP(user) ==
  [user EXCEPT !.otp = FixedOtp, !.otpExpires = now + OtpLifetime]

userVerifyOTP_noExpiry(user, inputOtp) ==
  IF user.otp = NoOtp \/ user.otpExpires = NoDate THEN FALSE
  ELSE user.otp = inputOtp

userVerifyOTP(user, inputOtp) ==
  IF user.otp = NoOtp \/ user.otpExpires = NoDate THEN FALSE
  ELSE IF user.otpExpires < now THEN FALSE
  ELSE user.otp = inputOtp

\* clearOTP leaving the code fields as they are.
clearOTP_flagOnly(user) == [user EXCEPT !.isVerified = TRUE]

clearOTP(user) ==
  [user EXCEPT !.otp = NoOtp, !.otpExpires = NoDate, !.isVerified = TRUE]

\* User.findOne({ phone }): the documents the query may resolve to.
findOneUser(phone) ==
  LET found == {u \in users : u.phone = phone}
  IN  IF found = {} THEN {NoDoc} ELSE found

\* User.findById(id)
findUserById(id) ==
  LET found == {u \in users : u._id = id}
  IN  IF found = {} THEN {NoDoc} ELSE found

\* doc.save() of a loaded document: writes every field of the stale copy.
savedUsers_wholeDoc(loaded, doc) ==
  {IF u._id = doc._id THEN doc ELSE u : u \in users}

\* doc.save() of a loaded document: mongoose sends only the modified paths.
savedUsers(loaded, doc) ==
  {IF u._id = doc._id
     THEN [f \in DOMAIN u |-> IF doc[f] # loaded[f] THEN doc[f] ELSE u[f]]
     ELSE u : u \in users}

\* The unique index on phone, switched off.
duplicateKey_noIndex(doc) == FALSE

\* userSchema.index({ phone: 1 }, { unique: true }): an insert of a phone
\* that is already stored fails with a duplicate-key error.
duplicateKey(doc) == \E u \in users : u.phone = doc.phone

----------------------------------------------------------------------------
(* Session credentials *)

signToken(id, role) == [id |-> id, role |-> role]

\* Credentials a client can present: none, or a token that was signed.
Creds == {NoCred} \cup tokens \cup AdminCreds

\* authToken without the isActive test.
authToken_anyAccount(cred) ==
  IF cred = NoCred THEN Undefined
  ELSE LET found == {u \in users \cup Admins : u._id = cred.id}
       IN  IF found = {} THEN Undefined ELSE CHOOSE x \in found : TRUE

\* authToken: the account the request is attached to, or Undefined (401).
authToken(cred) ==
  IF cred = NoCred THEN Undefined
  ELSE IF cred.role \in AdminRoles
    THEN LET found == {a \in Admins : a._id = cred.id}
         IN  IF found = {} THEN Undefined
             ELSE LET a == CHOOSE x \in found : TRUE
                  IN  IF a.isActive THEN a ELSE Undefined
    ELSE LET found == {u \in users : u._id = cred.id}
         IN  IF found = {} THEN Undefined
             ELSE LET u == CHOOSE x \in found : TRUE
                  IN  IF u.isActive THEN u ELSE Undefined

isAdmin(user) == user # Undefined /\ user.role \in AdminRoles

----------------------------------------------------------------------------
(* Identity operations (authController) *)

\* registerUser up to the await of bcrypt.hash: password check, findOne,
\* the 409 for a verified account.
registerUserFind(phone, passwordOk) ==
  /\ \E existingUser \in findOneUser(phone) :
       IF ~passwordOk
         THEN /\ resp' = Respond("registerUser", 400, NoCred, phone, 0)
              /\ UNCHANGED inflight
       ELSE IF existingUser # NoDoc /\ existingUser.isVerified
         THEN /\ resp' = Respond("registerUser", 409, NoCred, phone, 0)
              /\ UNCHANGED inflight
       ELSE /\ BagCardinality(inflight) < MaxInflight
            /\ inflight' = inflight (+)
                 SetToBag({[phone |-> phone, existingUser |-> existingUser]})
            /\ resp' = NoResp
  /\ UNCHANGED <<users, products, productSeq, schema, tokens, now,
                attempts, adminDoc>>

\* registerUser from generateOTP to the response.
registerUserSave(r) ==
  /\ BagIn(r, inflight)
  /\ inflight' = inflight (-) SetToBag({r})
  /\ IF r.existingUser # NoDoc
       THEN LET user == generateOTP(r.existingUser)
            IN  /\ users' = savedUsers(r.existingUser, user)
                /\ resp' = Respond("registerUser", 201, NoCred, r.phone, user._id)
       ELSE LET user == generateOTP(NewUser(Cardinality(users) + 1, r.phone))
            IN  IF duplicateKey(user)
                  THEN /\ resp' = Respond("registerUser", 500, NoCred, r.phone, 0)
                       /\ UNCHANGED users
                  ELSE /\ Cardinality(users) < MaxUsers
                       /\ users' = users \cup {user}
                       /\ resp' = Respond("registerUser", 201, NoCred, r.phone, user._id)
  /\ UNCHANGED <<products, productSeq, schema, tokens, now,
                attempts, adminDoc>>

\* POST /auth/verify-otp/:phone
verifyOTP(phone, otp) ==
  /\ \E user \in findOneUser(phone) :
       IF user = NoDoc
         THEN /\ resp' = RespondArg("verifyOTP", 404, NoCred, phone, 0, otp)
              /\ UNCHANGED <<users, tokens>>
       ELSE IF ~userVerifyOTP(user, otp)
         THEN /\ resp' = RespondArg("verifyOTP", 400, NoCred, phone, user._id, otp)
              /\ UNCHANGED <<users, tokens>>
       ELSE LET doc == [clearOTP(user) EXCEPT !.lastLogin = now]
            IN  /\ users' = savedUsers(user, doc)
                /\ tokens' = tokens \cup {signToken(doc._id, doc.role)}
                /\ resp' = RespondArg("verifyOTP", 200,
                              signToken(doc._id, doc.role), phone, doc._id, otp)
  /\ UNCHANGED <<products, productSeq, schema, inflight, now,
                attempts, adminDoc>>

\* POST /auth/request-otp
requestOTP(phone) ==
  /\ \E user \in findOneUser(phone) :
       IF user = NoDoc
         THEN /\ resp' = Respond("requestOTP", 404, NoCred, phone, 0)
              /\ UNCHANGED users
         ELSE /\ users' = savedUsers(user, generateOTP(user))
              /\ resp' = Respond("requestOTP", 200, NoCred, phone, user._id)
  /\ UNCHANGED <<products, productSeq, schema, tokens, inflight, now,
                attempts, adminDoc>>

\* POST /auth/login: the User schema has no password path, so the stored
\* hash is undefined and bcrypt.compare rejects; the catch answers 500.
login(phone) ==
  /\ \E validUser \in findOneUser(phone) :
       IF validUser = NoDoc
         THEN resp' = Respond("login", 404, NoCred, phone, 0)
         ELSE resp' = Respond("login", 500, NoCred, phone, validUser._id)
  /\ UNCHANGED <<users, products, productSeq, schema, tokens, inflight, now,
                attempts, adminDoc>>

\* PUT /auth/update-profile, behind authToken: name and profileImageUrl are
\* the only paths it modifies, so the save writes none of the fields here.
updateProfile(cred) ==
  /\ LET reqUser == authToken(cred)
     IN  IF reqUser = Undefined
           THEN /\ resp' = Respond("updateProfile", 401, cred, "", 0)
                /\ UNCHANGED users
           ELSE \E user \in findUserById(reqUser._id) :
                  IF user = NoDoc
                    THEN /\ resp' = Respond("updateProfile", 404, cred, "", 0)
                         /\ UNCHANGED users
                    ELSE /\ users' = savedUsers(user, user)
                         /\ resp' = Respond("updateProfile", 200, cred,
                                            user.phone, user._id)
  /\ UNCHANGED <<products, productSeq, schema, tokens, inflight, now,
                attempts, adminDoc>>

\* A logout that revokes the credential on the server.
logout_revoking(cred) ==
  /\ IF authToken(cred) = Undefined
       THEN resp' = Respond("logout", 401, cred, "", 0) /\ UNCHANGED tokens
       ELSE /\ resp' = Respond("logout", 200, cred, "", cred.id)
            /\ tokens' = tokens \ {cred}
  /\ UNCHANGED <<users, products, productSeq, schema, inflight, now,
                attempts, adminDoc>>

\* POST /auth/logout, behind authToken: the handler overwrites the client's
\* jwt cookie and answers 200; it reads and writes no stored state.
logout(cred) ==
  /\ IF authToken(cred) = Undefined
       THEN resp' = Respond("logout", 401, cred, "", 0)
       ELSE resp' = Respond("logout", 200, cred, "", cred.id)
  /\ UNCHANGED <<users, products, productSeq, schema, tokens, inflight, now,
                attempts, adminDoc>>

\* DELETE /auth/account, behind authToken and isVerified.
deleteAccount(cred) ==
  /\ LET reqUser == authToken(cred)
     IN  IF reqUser = Undefined
           THEN /\ resp' = Respond("deleteAccount", 401, cred, "", 0)
                /\ UNCHANGED users
         ELSE IF isAdmin(reqUser) \/ ~reqUser.isVerified
           THEN /\ resp' = Respond("deleteAccount", 403, cred, "", 0)
                /\ UNCHANGED users
         ELSE \E user \in findUserById(reqUser._id) :
                  IF user = NoDoc
                    THEN /\ resp' = Respond("deleteAccount", 404, cred, "", 0)
                         /\ UNCHANGED users
                    ELSE /\ users' = savedUsers(user, [user EXCEPT !.isActive = FALSE])
                         /\ resp' = Respond("deleteAccount", 200, cred,
                                            user.phone, user._id)
  /\ UNCHANGED <<products, productSeq, schema, tokens, inflight, now,
                attempts, adminDoc>>

----------------------------------------------------------------------------
(* The Product model *)

\* The two Product schemas of the repository.
Schemas == {"models/product.js", "part_002"}

\* status: { enum }
statusEnum ==
  IF schema = "models/product.js"
    THEN {"pending", "approved", "rejected"}
    ELSE {"pending", "approved", "rejected", "sold", "inactive"}

\* status: { default }
statusDefault ==
  IF schema = "models/product.js" THEN "approved" ELSE "pending"

\* expiresAt: { default: () => new Date(Date.now() + 90 days) }
expiresAtDefault == now + ProductLifetime

\* Request bodies for POST /products/post and PATCH /update-product/:id:
\* the fields that reach the moderation state; a field may be left out.
BodyStatuses == {Absent, "approved", "rejected", "sold"}
\* An optional date is a set holding at most one instant.
BodyExpiries == {{}, {OtpLifetime}}
dateOf(field) == CHOOSE t \in field : TRUE

\* new Product({ ...productData, userId: user._id })
NewProduct(id, body, userId) ==
  [_id |-> id, userId |-> userId, phone |-> body.phone,
   status |-> IF body.status = Absent THEN statusDefault ELSE body.status,
   rejectionReason |-> "", approvedBy |-> 0,
   expiresAt |-> IF body.expiresAt = {} THEN expiresAtDefault
                 ELSE dateOf(body.expiresAt)]

\* Schema validation run by product.save().
validProduct(p) == p.status \in statusEnum

approve(p, adminId) ==
  [p EXCEPT !.status = "approved", !.approvedBy = adminId,
            !.rejectionReason = ""]

reject(p, reason, adminId) ==
  [p EXCEPT !.status = "rejected", !.rejectionReason = reason,
            !.approvedBy = adminId]

\* browseProducts: filter = { status: 'approved' }
browseFilter(p) == p.status = "approved"

\* findApproved / searchMarketplace: approved and not yet expired.
findApproved == {p \in products : p.status = "approved" /\ p.expiresAt > now}

RECURSIVE sortDesc(_)
\* .sort({ createdAt: -1 }): _ids are generated in creation order.
sortDesc(ids) ==
  IF ids = {} THEN <<>>
  ELSE LET m == CHOOSE x \in ids : \A y \in ids : y <= x
       IN  <<m>> \o sortDesc(ids \ {m})

\* .skip((page - 1) * limit).limit(limit)
pageOf(seq, page, limit) ==
  {seq[i] : i \in {j \in 1..Len(seq) :
                     j > (page - 1) * limit /\ j <= page * limit}}

browseResult(page, limit) ==
  pageOf(sortDesc({p._id : p \in {q \in products : browseFilter(q)}}),
         page, limit)

----------------------------------------------------------------------------
(* Listing operations (productRoute, productController) *)

\* The product routes mount their handlers with authToken in front.
productRouteUser_authToken(cred) == authToken(cred)

\* router.patch('/update-product/:id', updateProduct) and
\* router.delete('/delete-product/:id', deleteProduct): no middleware runs
\* before the handler, so req.user is never set.
productRouteUser(cred) == Undefined

\* POST /products/post, a request that checkUserVerified answers itself:
\* no account for the body's phone, or an account that is not verified
\* (a code is reissued and the request ends with status 404).
checkUserVerified(cred, body) ==
  /\ \E user \in findOneUser(body.phone) :
       /\ IF user = NoDoc THEN TRUE ELSE ~user.isVerified
       /\ IF user = NoDoc
            THEN /\ resp' = Respond("postProduct", 404, cred, body.phone, 0)
                 /\ UNCHANGED users
            ELSE /\ users' = savedUsers(user,
                      [user EXCEPT !.otp = FixedOtp,
                                   !.otpExpires = now + ResendOtpLifetime])
                 /\ resp' = Respond("postProduct", 404, cred, body.phone, 0)
  /\ UNCHANGED <<products, productSeq, schema, tokens, inflight, now,
                attempts, adminDoc>>

\* POST /products/post, a request that checkUserVerified passes on to
\* postProduct: req.user is the verified account of the body's phone.
postProduct(cred, body) ==
  /\ \E user \in findOneUser(body.phone) :
       /\ user # NoDoc /\ user.isVerified
       /\ LET product == NewProduct(productSeq + 1, body, user._id)
          IN  IF ~validProduct(product)
                THEN /\ resp' = Respond("postProduct", 500, cred, body.phone, 0)
                     /\ UNCHANGED <<products, productSeq>>
                ELSE /\ productSeq < MaxProducts
                     /\ productSeq' = productSeq + 1
                     /\ products' = products \cup {product}
                     /\ resp' = Respond("postProduct", 201, cred,
                                        body.phone, product._id)
  /\ UNCHANGED <<users, schema, tokens, inflight, now, attempts, adminDoc>>

\* POST /products/verfiry-otp
verifyOtp(phone, otp) ==
  /\ \E user \in findOneUser(phone) :
       IF otp = Absent
         THEN /\ resp' = RespondArg("verifyOtp", 400, NoCred, phone, 0, otp)
              /\ UNCHANGED users
       ELSE IF user = NoDoc
         THEN /\ resp' = RespondArg("verifyOtp", 404, NoCred, phone, 0, otp)
              /\ UNCHANGED users
       ELSE IF user.otp # otp \/ user.otpExpires < now
         THEN /\ resp' = RespondArg("verifyOtp", 400, NoCred, phone, user._id, otp)
              /\ UNCHANGED users
       ELSE /\ users' = savedUsers(user, clearOTP(user))
            /\ resp' = RespondArg("verifyOtp", 201, NoCred, phone, user._id, otp)
  /\ UNCHANGED <<products, productSeq, schema, tokens, inflight, now,
                attempts, adminDoc>>

\* $set: updatedData
setFields(p, body) ==
  [p EXCEPT !.status = IF body.status = Absent THEN @ ELSE body.status,
            !.expiresAt = IF body.expiresAt = {} THEN @
                          ELSE dateOf(body.expiresAt),
            !.userId = IF "userId" \in DOMAIN body /\ body.userId # 0
                         THEN body.userId ELSE @]

\* updateProduct, the handler, run with req.user = user.
updateProductOn(user, cred, id, body) ==
  /\ IF user = Undefined
       THEN \* user._id throws a TypeError; the catch answers 500
            /\ resp' = RespondArg("updateProduct", 500, cred, "", id,
                                  body.status)
            /\ UNCHANGED products
     ELSE IF ~\E p \in products : p._id = id /\ p.userId = user._id
       THEN /\ resp' = RespondArg("updateProduct", 404, cred, "", id,
                                  body.status)
            /\ UNCHANGED products
     ELSE /\ products' = {IF p._id = id THEN setFields(p, body) ELSE p :
                            p \in products}
          /\ resp' = RespondArg("updateProduct", 200, cred, "", id,
                                body.status)
  /\ UNCHANGED <<users, productSeq, schema, tokens, inflight, now,
                attempts, adminDoc>>

\* PATCH /products/update-product/:id
updateProduct(cred, id, body) ==
  updateProductOn(productRouteUser(cred), cred, id, body)

\* deleteProduct, the handler, run with req.user = user.
deleteProductOn(user, cred, id) ==
  /\ IF user = Undefined
       THEN /\ resp' = Respond("deleteProduct", 500, cred, "", id)
            /\ UNCHANGED products
     ELSE IF ~\E p \in products : p._id = id /\ p.userId = user._id
       THEN /\ resp' = Respond("deleteProduct", 404, cred, "", id)
            /\ UNCHANGED products
     ELSE /\ products' = {p \in products : p._id # id}
          /\ resp' = Respond("deleteProduct", 200, cred, "", id)
  /\ UNCHANGED <<users, productSeq, schema, tokens, inflight, now,
                attempts, adminDoc>>

\* DELETE /products/delete-product/:id
deleteProduct(cred, id) ==
  deleteProductOn(productRouteUser(cred), cred, id)

\* GET /products/browse-products and /marketplace/browse-products
browseProducts(page, limit) ==
  /\ resp' = [Respond("browseProducts", 200, NoCred, "", 0)
                EXCEPT !.data = browseResult(page, limit)]
  /\ UNCHANGED <<users, products, productSeq, schema, tokens, inflight, now,
                attempts, adminDoc>>

----------------------------------------------------------------------------
(* Public queries of the marketplace router (routes/userRoutes.js) *)

\* search_keyword values: blank, a fragment of every phone, a whole phone,
\* a word no field holds.
Keywords == {"", "p", "p1", "p2", "zz"}

\* { $regex: search_keyword, $options: "i" } on a field: the field contains
\* the keyword.
regexMatch(field, keyword) ==
  \/ keyword = field
  \/ keyword = "p" /\ field \in ListingPhones

\* filtersProduct: the $or over governorate, city, brand, phone, type,
\* condition, price; of these the model keeps phone.  No status condition.
filterQuery(p, keyword) == regexMatch(p.phone, keyword)

\* GET /marketplace/filters-product
filtersProduct(keyword, page, limit) ==
  /\ LET found == pageOf(sortDesc({p._id : p \in
                     {q \in products : filterQuery(q, keyword)}}), page, limit)
     IN  IF keyword = ""
           THEN resp' = RespondArg("filtersProduct", 400, NoCred, "", 0, keyword)
         ELSE IF found = {}
           THEN resp' = RespondArg("filtersProduct", 404, NoCred, "", 0, keyword)
         ELSE resp' = [RespondArg("filtersProduct", 200, NoCred, "", 0, keyword)
                         EXCEPT !.data = found]
  /\ UNCHANGED <<users, products, productSeq, schema, tokens, inflight, now,
                attempts, adminDoc>>

\* searchProductsWithFilters with no keyword and no filter set:
\* query = { status: 'approved' }
searchQuery(p) == p.status = "approved"

\* GET /marketplace/search-products
searchProductsWithFilters(page, limit) ==
  /\ resp' = [Respond("searchProductsWithFilters", 200, NoCred, "", 0)
                EXCEPT !.data = pageOf(sortDesc({p._id : p \in
                         {q \in products : searchQuery(q)}}), page, limit)]
  /\ UNCHANGED <<users, products, productSeq, schema, tokens, inflight, now,
                attempts, adminDoc>>

\* GET /marketplace/getOneProduct/:id
getProductById(id) ==
  /\ IF \E p \in products : p._id = id
       THEN resp' = [Respond("getProductById", 200, NoCred, "", id)
                       EXCEPT !.data = {id}]
       ELSE resp' = Respond("getProductById", 404, NoCred, "", id)
  /\ UNCHANGED <<users, products, productSeq, schema, tokens, inflight, now,
                attempts, adminDoc>>

----------------------------------------------------------------------------
(* Moderation (adminApprovalRoutes: authToken, isAdmin, updateProductStatus) *)

\* A handler that stores whatever status the administrator names.
allowedNext_open(status) == Statuses

\* The admin transitions of the status graph.
allowedNext(status) ==
  CASE status = "pending"  -> {"approved", "rejected"}
    [] status = "approved" -> {"sold", "inactive"}
    [] status = "inactive" -> {"approved"}
    [] OTHER               -> {}

\* The document a permitted transition stores.
transitioned(p, newStatus, reason, adminId) ==
  CASE newStatus = "approved" -> approve(p, adminId)
    [] newStatus = "rejected" -> reject(p, reason, adminId)
    [] OTHER -> [p EXCEPT !.status = newStatus, !.approvedBy = adminId]

\* PATCH /admin/update/:id
updateProductStatus(cred, id, newStatus, reason) ==
  /\ LET user == authToken(cred)
         found == {p \in products : p._id = id}
     IN  IF user = Undefined
           THEN /\ resp' = RespondArg("updateProductStatus", 401, cred, "", id, newStatus)
                /\ UNCHANGED products
         ELSE IF ~isAdmin(user)
           THEN /\ resp' = RespondArg("updateProductStatus", 403, cred, "", id, newStatus)
                /\ UNCHANGED products
         ELSE IF found = {}
           THEN /\ resp' = RespondArg("updateProductStatus", 404, cred, "", id, newStatus)
                /\ UNCHANGED products
         ELSE LET p == CHOOSE x \in found : TRUE
                  doc == transitioned(p, newStatus, reason, user._id)
              IN  IF newStatus \notin allowedNext(p.status)
                       \/ (newStatus = "rejected" /\ reason = "")
                    THEN /\ resp' = RespondArg("updateProductStatus", 400, cred, "", id, newStatus)
                         /\ UNCHANGED products
                  ELSE IF ~validProduct(doc)
                    THEN /\ resp' = RespondArg("updateProductStatus", 500, cred, "", id, newStatus)
                         /\ UNCHANGED products
                  ELSE /\ products' = (products \ {p}) \cup {doc}
                       /\ resp' = RespondArg("updateProductStatus", 200, cred, "", id, newStatus)
  /\ UNCHANGED <<users, productSeq, schema, tokens, inflight, now,
                attempts, adminDoc>>

----------------------------------------------------------------------------
(* The environment: the clock and the store's TTL monitor *)

\* Date.now() advances.
Tick(instants) ==
  /\ \E t \in instants : t > now /\ now' = t
  /\ resp' = NoResp
  /\ UNCHANGED <<users, products, productSeq, schema, tokens, inflight,
                attempts, adminDoc>>

\* productSchema.index({ expiresAt: 1 }, { expireAfterSeconds: 0 }): the
\* store's TTL monitor deletes the documents whose expiresAt has passed.
ttlMonitor ==
  /\ \E p \in products : p.expiresAt <= now
  /\ products' = {p \in products : p.expiresAt > now}
  /\ resp' = NoResp
  /\ UNCHANGED <<users, productSeq, schema, tokens, inflight, now,
                attempts, adminDoc>>

----------------------------------------------------------------------------
(* The identity component: every operation that writes the User collection *)

\* req.body.otp: a code, or no code at all.
OtpInputs == Codes \cup {Absent}

Bodies == [phone : ListingPhones, status : BodyStatuses,
           expiresAt : BodyExpiries]
PlainBodies == [phone : Phones, status : {Absent}, expiresAt : {{}}]
Patches == [status : {Absent, "approved"}, expiresAt : BodyExpiries]
ProductIds == 1..MaxProducts
Pages == {1, 2}
Limits == {1, 10}

Init ==
  /\ users = {}
  /\ products = {}
  /\ productSeq = 0
  /\ schema \in Schemas
  /\ tokens = {}
  /\ inflight = EmptyBag
  /\ now = 0
  /\ resp = NoResp
  /\ attempts = NoAttempts
  /\ adminDoc = NewAdminDoc

Next ==
  \/ \E phone \in Phones, ok \in BOOLEAN : registerUserFind(phone, ok)
  \/ \E r \in BagToSet(inflight) : registerUserSave(r)
  \/ \E phone \in Phones, otp \in OtpInputs : verifyOTP(phone, otp)
  \/ \E phone \in Phones : requestOTP(phone)
  \/ \E phone \in Phones : login(phone)
  \/ \E cred \in Creds : updateProfile(cred)
  \/ \E cred \in Creds : deleteAccount(cred)
  \/ \E cred \in Creds : logout(cred)
  \/ \E cred \in Creds, body \in PlainBodies : checkUserVerified(cred, body)
  \/ \E phone \in Phones, otp \in OtpInputs : verifyOtp(phone, otp)
  \/ Tick(OtpClock)

Spec == Init /\ [][Next]_vars

----------------------------------------------------------------------------
(* The moderation component, started from a state of the identity         *)
(* component: account 1 registered and verified, account 2 registered.    *)

InitListing ==
  /\ now = 0
  /\ users = {[clearOTP(NewUser(1, "p1")) EXCEPT !.lastLogin = 0],
              generateOTP(NewUser(2, "p2"))}
  /\ products = {}
  /\ productSeq = 0
  /\ schema \in Schemas
  /\ tokens = {signToken(1, "user")}
  /\ inflight = EmptyBag
  /\ resp = NoResp
  /\ attempts = NoAttempts
  /\ adminDoc = NewAdminDoc

NextListing ==
  \/ \E cred \in Creds, body \in Bodies : checkUserVerified(cred, body)
  \/ \E cred \in Creds, body \in Bodies : postProduct(cred, body)
  \/ \E cred \in Creds, id \in ProductIds, body \in Patches :
       updateProduct(cred, id, body)
  \/ \E cred \in Creds, id \in ProductIds : deleteProduct(cred, id)
  \/ \E page \in Pages, limit \in Limits : browseProducts(page, limit)
  \/ \E cred \in Creds, id \in ProductIds, st \in Statuses, reason \in Reasons :
       updateProductStatus(cred, id, st, reason)
  \/ Tick(ListingClock)
  \/ ttlMonitor

SpecListing == InitListing /\ [][NextListing]_vars

\* The initial states of the moderation component are states the identity
\* component reaches once its requests name both phones of ListingPhones.
ListingStart ==
  /\ users = {[clearOTP(NewUser(1, "p1")) EXCEPT !.lastLogin = 0],
              generateOTP(NewUser(2, "p2"))}
  /\ tokens = {signToken(1, "user")}
  /\ inflight = EmptyBag
  /\ now = 0

----------------------------------------------------------------------------
(* The owner operations on the product routes as they are mounted, started *)
(* from a state of the identity component: accounts 1 and 2 registered    *)
(* and verified, each holding a credential.                               *)

InitOwner ==
  /\ now = 0
  /\ users = {[clearOTP(NewUser(1, "p1")) EXCEPT !.lastLogin = 0],
              [clearOTP(NewUser(2, "p2")) EXCEPT !.lastLogin = 0]}
  /\ products = {}
  /\ productSeq = 0
  /\ schema \in Schemas
  /\ tokens = {signToken(1, "user"), signToken(2, "user")}
  /\ inflight = EmptyBag
  /\ resp = NoResp
  /\ attempts = NoAttempts
  /\ adminDoc = NewAdminDoc

NextOwner ==
  \/ \E cred \in Creds, body \in Bodies : postProduct(cred, body)
  \/ \E cred \in Creds, id \in ProductIds, body \in Patches :
       updateProduct(cred, id, body)
  \/ \E cred \in Creds, id \in ProductIds : deleteProduct(cred, id)

SpecOwner == InitOwner /\ [][NextOwner]_vars

----------------------------------------------------------------------------
(* The Edit and Delete handlers run as their code reads req.user ("user   *)
(* from JWT token"): behind authToken, which answers 401 itself or        *)
(* attaches the account of the credential.                                *)

updateProductAuthed(cred, id, body) ==
  IF authToken(cred) = Undefined
    THEN /\ resp' = RespondArg("updateProduct", 401, cred, "", id, body.status)
         /\ UNCHANGED <<users, products, productSeq, schema, tokens,
                        inflight, now,
                        attempts, adminDoc>>
    ELSE updateProductOn(authToken(cred), cred, id, body)

deleteProductAuthed(cred, id) ==
  IF authToken(cred) = Undefined
    THEN /\ resp' = Respond("deleteProduct", 401, cred, "", id)
         /\ UNCHANGED <<users, products, productSeq, schema, tokens,
                        inflight, now,
                        attempts, adminDoc>>
    ELSE deleteProductOn(authToken(cred), cred, id)

NextHandler ==
  \/ \E cred \in Creds, body \in Bodies : postProduct(cred, body)
  \/ \E cred \in Creds, id \in ProductIds, body \in Patches :
       updateProductAuthed(cred, id, body)
  \/ \E cred \in Creds, id \in ProductIds : deleteProductAuthed(cred, id)

SpecHandler == InitOwner /\ [][NextHandler]_vars

----------------------------------------------------------------------------
(* The public queries over the listings that Submit, Transition and the   *)
(* TTL monitor leave in the store.                                        *)

NextPublic ==
  \/ \E body \in Bodies : postProduct(NoCred, body)
  \/ \E cred \in AdminCreds, id \in ProductIds, st \in Statuses,
        reason \in Reasons : updateProductStatus(cred, id, st, reason)
  \/ \E page \in Pages, limit \in Limits : browseProducts(page, limit)
  \/ \E keyword \in Keywords, page \in Pages, limit \in Limits :
       filtersProduct(keyword, page, limit)
  \/ \E page \in Pages, limit \in Limits :
       searchProductsWithFilters(page, limit)
  \/ \E id \in ProductIds : getProductById(id)
  \/ Tick(ListingClock)
  \/ ttlMonitor

SpecPublic == InitListing /\ [][NextPublic]_vars

----------------------------------------------------------------------------
(* Properties of the identity component *)

\* C1: after any sequence of Register calls, interleaved or not, the stored
\* accounts have pairwise-distinct phone numbers.
C1_PhonesDistinct ==
  \A u \in users, v \in users : u.phone = v.phone => u._id = v._id

\* A Register that raced another for the same new phone and lost: its insert
\* hit the unique index after the other account was stored.
C1_Witness ==
  /\ resp.op = "registerUser" /\ resp.code = 500
  /\ \E u \in users : u.phone = resp.phone

\* C7: once an account is verified it is verified in every later state; no
\* operation writes the flag back to false.
C7_VerifiedForever ==
  [][\A u \in users : u.isVerified =>
       \E v \in users' : v._id = u._id /\ v.isVerified]_vars

\* A Register that read the account before it was verified saved it after:
\* the account is still verified.
C7_Witness ==
  /\ resp.op = "registerUser" /\ resp.code = 201
  /\ \E u \in users : u._id = resp.id /\ u.isVerified

\* The stored code of the phone has an expiry that has passed.
storedCodeExpired(phone) ==
  \E u \in users : /\ u.phone = phone
                   /\ u.otpExpires # NoDate
                   /\ u.otpExpires < now

\* C9: VerifyCode called after the stored code's expiry answers 400, also for
\* the right code, and leaves the account as it was (both verify routes).
C9_ExpiredCodeFails ==
  [][\A phone \in Phones, otp \in Codes :
       (storedCodeExpired(phone) /\ (verifyOTP(phone, otp) \/ verifyOtp(phone, otp)))
         => (resp'.code = 400 /\ users' = users /\ tokens' = tokens)]_vars

\* VerifyCode presented the stored code after its expiry and was refused.
C9_Witness ==
  /\ resp.op = "verifyOTP" /\ resp.code = 400
  /\ \E u \in users : /\ u._id = resp.id
                      /\ u.otp = resp.arg
                      /\ u.otpExpires # NoDate /\ u.otpExpires < now
                      /\ ~u.isVerified


\* The account of the phone is verified: a VerifyCode consumed its code, and
\* every code ever issued has the value FixedOtp.
codeSpent(phone) == \E u \in users : u.phone = phone /\ u.isVerified

\* C8: a code that a successful VerifyCode consumed never satisfies VerifyCode
\* again for that account, also after Register or RequestCode reissued a code.
C8_SpentCodeFails ==
  [][\A phone \in Phones :
       (codeSpent(phone) /\ verifyOTP(phone, FixedOtp)) => resp'.code # 200]_vars

----------------------------------------------------------------------------
(* Properties of the moderation component *)

BrowseAll == UNION {browseResult(page, 10) : page \in Pages}

\* C3: a listing is in the Browse results if and only if its status is
\* approved and its expiry is later than the current time.
C3_BrowseVisibility ==
  \A p \in products :
    (p._id \in BrowseAll) <=> (p.status = "approved" /\ p.expiresAt > now)

\* C4: a Submit without a valid credential answers 401, and a created listing
\* is owned by the account that authenticated the request.
C4_SubmitAuthenticated ==
  /\ (resp.op = "postProduct" /\ authToken(resp.cred) = Undefined)
       => resp.code = 401
  /\ (resp.op = "postProduct" /\ resp.code = 201)
       => \E p \in products : p._id = resp.id /\ p.userId = resp.cred.id

\* The account of the body's phone is stored and not verified.
unverifiedSubmitter(body) ==
  \E u \in users : u.phone = body.phone /\ ~u.isVerified

\* C5: a Submit by an account that is not verified answers 403 and leaves the
\* stored listings unchanged.
C5_UnverifiedForbidden ==
  [][\A cred \in Creds, body \in Bodies :
       (unverifiedSubmitter(body)
          /\ (checkUserVerified(cred, body) \/ postProduct(cred, body)))
         => (resp'.code = 403 /\ products' = products)]_vars

\* C6: the listing a successful Submit stored is owned by the submitting
\* account, is pending, and expires 90 days after its creation, whatever the
\* body held.
C6_SubmitPersistsPending ==
  (resp.op = "postProduct" /\ resp.code = 201)
    => \E p \in products :
         /\ p._id = resp.id
         /\ \E u \in users : u.phone = resp.phone /\ p.userId = u._id
         /\ p.status = "pending"
         /\ p.expiresAt = now + ProductLifetime

\* The edges of the status graph.
Edges ==
  {<<"pending", "approved">>, <<"pending", "rejected">>,
   <<"approved", "sold">>, <<"approved", "inactive">>,
   <<"inactive", "approved">>, <<"rejected", "pending">>}

\* C10: an administrator's Transition over a pair of statuses that is not an
\* edge of the graph answers 400 and leaves the listing as it was.
C10_NonEdgeRefused ==
  [][(/\ resp'.op = "updateProductStatus"
      /\ resp'.cred \in AdminCreds
      /\ \E p \in products : /\ p._id = resp'.id
                             /\ <<p.status, resp'.arg>> \notin Edges)
       => (resp'.code = 400 /\ products' = products)]_vars

\* An administrator asked for a status that is no edge from the listing's
\* status and was refused; the listing holds the status it had.
C10_Witness ==
  /\ resp.op = "updateProductStatus" /\ resp.code = 400
  /\ resp.cred \in AdminCreds
  /\ \E p \in products : /\ p._id = resp.id
                         /\ <<p.status, resp.arg>> \notin Edges
                         /\ p.status # resp.arg

\* C11: every stored listing whose status is rejected carries a non-empty
\* rejection reason (a rejection without a reason is always refused).
C11_RejectedHasReason ==
  \A p \in products : p.status = "rejected" => p.rejectionReason # ""

\* C12: an Edit or Delete by an account that holds a credential, does not own
\* the listing and is no administrator answers 403 or 404 and leaves the
\* stored listings as they were.
C12_NonOwnerRefused ==
  [][(/\ resp'.op \in {"updateProduct", "deleteProduct"}
      /\ resp'.cred \in tokens
      /\ \E p \in products : p._id = resp'.id /\ p.userId # resp'.cred.id)
       => (resp'.code \in {403, 404} /\ products' = products)]_vars

\* C13: a successful Edit leaves the listing's status, owner and moderation
\* fields as they were, whatever the patch holds.
C13_EditKeepsStatus ==
  [][(resp'.op = "updateProduct" /\ resp'.code = 200)
       => \A p \in products, q \in products' :
            (p._id = resp'.id /\ q._id = resp'.id)
              => /\ q.status = p.status
                 /\ q.userId = p.userId
                 /\ q.rejectionReason = p.rejectionReason
                 /\ q.approvedBy = p.approvedBy]_vars

\* C14: a Delete by the listing's owner or by an administrator answers 200
\* and removes the listing, whatever its status; a Delete of a listing that
\* is not stored answers 404 and removes nothing.
C14_DeleteOutcomes ==
  [][(resp'.op = "deleteProduct" /\ resp'.cred \in tokens \cup AdminCreds)
       => IF \E p \in products : p._id = resp'.id
            THEN \A p \in products :
                   (/\ p._id = resp'.id
                    /\ (p.userId = resp'.cred.id \/ resp'.cred \in AdminCreds))
                     => (resp'.code = 200 /\ products' = products \ {p})
            ELSE resp'.code = 404 /\ products' = products]_vars

\* C15: a stored listing leaves the store only in a Delete that answered 200
\* for it; the passing of its expiry removes nothing.
C15_RemovedOnlyByDelete ==
  [][\A p \in products :
       (~\E q \in products' : q._id = p._id)
         => (resp'.op = "deleteProduct" /\ resp'.code = 200
               /\ resp'.id = p._id)]_vars

\* The listing is approved and its expiry is later than the current time.
publiclyVisible(p) == p.status = "approved" /\ p.expiresAt > now

\* C16: the keyword filter, the filtered search and the fetch by id return a
\* listing only if it is approved and not expired.
C16_PublicQueriesVisibleOnly ==
  (resp.op \in {"filtersProduct", "searchProductsWithFilters",
                "getProductById"})
    => \A id \in resp.data :
         \E p \in products : p._id = id /\ publiclyVisible(p)

\* C17: a Register for a phone with no account stores a new unverified
\* account with a fresh code; for an unverified account it reuses that
\* account and reissues its code; for a verified account it answers 409 and
\* changes nothing.  No other outcome exists.
C17_RegisterOutcomes ==
  [][/\ \A r \in BagToSet(inflight) :
          registerUserSave(r) =>
            /\ resp'.code = 201
            /\ IF r.existingUser = NoDoc
                 THEN \E u \in users' :
                        /\ u.phone = r.phone
                        /\ u._id \notin {v._id : v \in users}
                        /\ ~u.isVerified
                        /\ u.otp = FixedOtp
                        /\ u.otpExpires = now + OtpLifetime
                 ELSE /\ {v._id : v \in users'} = {v._id : v \in users}
                      /\ \E u \in users' :
                           /\ u._id = r.existingUser._id
                           /\ u.otp = FixedOtp
                           /\ u.otpExpires = now + OtpLifetime
     /\ \A phone \in Phones :
          (registerUserFind(phone, TRUE)
             /\ \E u \in users : u.phone = phone /\ u.isVerified)
            => (resp'.code = 409 /\ users' = users)]_vars

deactivated(cred) == \E u \in users : u._id = cred.id /\ ~u.isActive

\* C19: an inactive account stays inactive, authToken refuses every
\* credential signed for it, and a protected operation requested with such
\* a credential answers 401 and changes nothing.
C19_InactiveUnauthorized ==
  [][/\ \A u \in users :
          ~u.isActive => \E v \in users' : v._id = u._id /\ ~v.isActive
     /\ \A cred \in tokens :
          deactivated(cred) =>
            /\ authToken(cred) = Undefined
            /\ (updateProfile(cred) \/ deleteAccount(cred))
                 => (resp'.code = 401 /\ users' = users
                       /\ tokens' = tokens)]_vars

\* A protected operation was requested with a credential of a deactivated
\* account and refused with 401.
C19_Witness ==
  /\ resp.op \in {"updateProfile", "deleteAccount"} /\ resp.code = 401
  /\ resp.cred \in tokens
  /\ deactivated(resp.cred)

\* C20: a Logout writes no stored state, and every credential authToken
\* accepted before the Logout is accepted after it.
C20_LogoutStateless ==
  [][\A cred \in Creds :
       logout(cred) =>
         /\ users' = users /\ tokens' = tokens /\ products' = products
         /\ \A c \in Creds :
              authToken(c) # Undefined => authToken(c)' # Undefined]_vars

\* A Logout was served for a credential, and authToken still accepts that
\* credential.
C20_Witness ==
  /\ resp.op = "logout" /\ resp.code = 200
  /\ resp.cred \in tokens
  /\ authToken(resp.cred) # Undefined

\* C21: a Submit by a verified account with a body that sets neither status
\* nor expiry answers 201 and stores a pending listing that Browse does not
\* return; once an administrator's Transition to approved has answered 200,
\* Browse returns the listing.
C21_HappyPath ==
  [][/\ \A cred \in Creds, body \in Bodies :
          (postProduct(cred, body) /\ body.status = Absent
             /\ body.expiresAt = {})
            => /\ resp'.code = 201
               /\ \E p \in products' : /\ p._id = resp'.id
                                       /\ p.status = "pending"
               /\ resp'.id \notin BrowseAll'
     /\ (resp'.op = "updateProductStatus" /\ resp'.code = 200
           /\ resp'.arg = "approved")
          => resp'.id \in BrowseAll']_vars

\* C22: a Transition to rejected that answered 200 leaves the listing
\* rejected with a reason and out of Browse; an Edit by the owner of a
\* listing rejected with a reason answers 200 and takes it back to pending;
\* a rejected listing becomes pending in no other way.
C22_RejectThenResubmit ==
  [][/\ (resp'.op = "updateProductStatus" /\ resp'.code = 200
           /\ resp'.arg = "rejected")
          => /\ \E p \in products' : /\ p._id = resp'.id
                                     /\ p.status = "rejected"
                                     /\ p.rejectionReason # ""
             /\ resp'.id \notin BrowseAll'
     /\ (/\ resp'.op = "updateProduct"
         /\ resp'.cred \in tokens
         /\ \E p \in products : /\ p._id = resp'.id
                                /\ p.userId = resp'.cred.id
                                /\ p.status = "rejected"
                                /\ p.rejectionReason # "")
          => /\ resp'.code = 200
             /\ \E q \in products' : q._id = resp'.id /\ q.status = "pending"
     /\ \A p \in products, q \in products' :
          (p._id = q._id /\ p.status = "rejected" /\ q.status = "pending")
            => (resp'.op = "updateProduct" /\ resp'.code = 200)]_vars

----------------------------------------------------------------------------
(* The rate limiter of the authentication routes: authRateLimit, mounted  *)
(* as authLimiter in front of register, verify-otp and request-otp.  A    *)
(* request it passes on goes to the validators and the controller of the  *)
(* identity component; its Map is touched by nothing else.                *)

\* The Map entry of a key after a request at time t (attempts.set, the
\* window reset, count++), an entry at the limit being left as it is.
limiterEntry_sliding(entry, t) ==
  IF entry = NoEntry \/ t > entry.resetTime
    THEN [count |-> 1, resetTime |-> t + AuthWindow]
    ELSE IF entry.count >= AuthMax
           THEN [entry EXCEPT !.resetTime = t + AuthWindow]
           ELSE [entry EXCEPT !.count = @ + 1]

limiterEntry(entry, t) ==
  IF entry = NoEntry
    THEN [count |-> 1, resetTime |-> t + AuthWindow]
    ELSE IF t > entry.resetTime
           THEN [count |-> 1, resetTime |-> t + AuthWindow]
           ELSE IF entry.count >= AuthMax
                  THEN entry
                  ELSE [entry EXCEPT !.count = @ + 1]

\* next(new AppError('Too many authentication attempts...', 429))
limiterBlocks(entry, t) ==
  /\ entry # NoEntry
  /\ ~(t > entry.resetTime)
  /\ entry.count >= AuthMax

LimitedRoutes == {"register", "verify-otp", "request-otp"}

\* A request from address key on a limited route: answered 429, or passed
\* on with next() (code 0: the limiter itself sends no response).
authLimiter(key, route) ==
  /\ attempts' = [attempts EXCEPT ![key] = limiterEntry(@, now)]
  /\ resp' = RespondArg("authLimiter",
                        IF limiterBlocks(attempts[key], now) THEN 429 ELSE 0,
                        NoCred, "", 0, key)
  /\ UNCHANGED <<users, products, productSeq, schema, tokens, inflight, now,
                 adminDoc>>

\* router.post('/login', authController.login): no limiter in front.
loginRoute(key) ==
  /\ resp' = RespondArg("loginRoute", 0, NoCred, "", 0, key)
  /\ UNCHANGED <<users, products, productSeq, schema, tokens, inflight, now,
                 attempts, adminDoc>>

\* Instants around the end of a window begun at 0.
LimiterClock == {0, AuthWindow, AuthWindow + 1}

NextLimiter ==
  \/ \E key \in ClientKeys, route \in LimitedRoutes : authLimiter(key, route)
  \/ \E key \in ClientKeys : loginRoute(key)
  \/ Tick(LimiterClock)

SpecLimiter == Init /\ [][NextLimiter]_vars

\* C23: on the authentication endpoints one client address has at most 5
\* requests admitted within one 15-minute window: the count of the window
\* never exceeds 5.
C23_FivePerWindow ==
  \A key \in ClientKeys : attempts[key].count <= 5

\* C29: a request answered 429 leaves the Map as it was (no increment, the
\* reset time not moved); a request changes no other key's entry; the first
\* request of a key after its reset time is admitted and starts a new
\* window with count 1.
C29_WindowsFixedAndRecover ==
  [][resp'.op = "authLimiter"
       => /\ resp'.code = 429 => attempts' = attempts
          /\ \A other \in ClientKeys \ {resp'.arg} :
               attempts'[other] = attempts[other]
          /\ (attempts[resp'.arg] # NoEntry
              /\ now > attempts[resp'.arg].resetTime)
               => /\ resp'.code = 0
                  /\ attempts'[resp'.arg] =
                       [count |-> 1, resetTime |-> now + AuthWindow]]_vars

\* A client at the limit has just been answered 429 inside its window.
C29_Witness ==
  /\ resp.op = "authLimiter"
  /\ resp.code = 429
  /\ attempts[resp.arg].count = AuthMax
  /\ now <= attempts[resp.arg].resetTime

----------------------------------------------------------------------------
(* The product validator (validation.js validateProductCreation).  Text   *)
(* fields are sequences of characters, <<>> standing for a field that is  *)
(* missing or empty (both falsy); price is {} when missing, else {n}.     *)

RECURSIVE trimStart(_)
trimStart(s) ==
  IF s # <<>> /\ Head(s) = " " THEN trimStart(Tail(s)) ELSE s

RECURSIVE trimEnd(_)
trimEnd(s) ==
  IF s # <<>> /\ s[Len(s)] = " " THEN trimEnd(SubSeq(s, 1, Len(s) - 1)) ELSE s

trim(s) == trimEnd(trimStart(s))

validTypes == {"Inverter", "Panel", "Battery", "Accessory", "Cable",
               "Controller", "Monitor", "Other"}
validConditions == {"New", "Used", "Needs Repair", "Refurbished"}
MaxNameLen == 200
MaxPrice == 999999999
MinPhoneLen == 8

nameFails(b) ==
  b.name = <<>> \/ Len(trim(b.name)) < 2 \/ Len(trim(b.name)) > MaxNameLen
typeFails(b) == b.type = Absent \/ b.type \notin validTypes
conditionFails(b) == b.condition = Absent \/ b.condition \notin validConditions
\* !price || price < 0 || price > 999999999: !price is true of 0 as well
priceFails(b) ==
  b.price = {} \/ \E n \in b.price : n = 0 \/ n < 0 \/ n > MaxPrice
phoneFails(b) == b.phone = <<>> \/ Len(b.phone) < MinPhoneLen
governorateFails(b) == b.governorate = <<>> \/ Len(trim(b.governorate)) = 0
cityFails(b) == b.city = <<>> \/ Len(trim(b.city)) = 0

\* The field of the first check that answers 400, or "next".
firstFailing(b) ==
  IF nameFails(b) THEN "name"
  ELSE IF typeFails(b) THEN "type"
  ELSE IF conditionFails(b) THEN "condition"
  ELSE IF priceFails(b) THEN "price"
  ELSE IF phoneFails(b) THEN "phone"
  ELSE IF governorateFails(b) THEN "governorate"
  ELSE IF cityFails(b) THEN "city"
  ELSE "next"

\* A received request body goes through the validator: 400, or next()
\* (code 0: the validator itself sends no response).
validateProductCreation(b) ==
  /\ inflight' = inflight (-) SetToBag({b})
  /\ resp' = RespondArg("validateProductCreation",
                        IF firstFailing(b) = "next" THEN 0 ELSE 400,
                        NoCred, "", 0, firstFailing(b))
  /\ UNCHANGED <<users, products, productSeq, schema, tokens, now,
                 attempts, adminDoc>>

ProductBodies ==
  [name : {<<>>, <<" ", "a", " ">>, <<"P", "V">>},
   type : {Absent, "Turbine", "Panel"},
   condition : {Absent, "Broken", "New"},
   price : {{}, {-1}, {0}, {1}, {MaxPrice + 1}},
   phone : {<<>>, [i \in 1..7 |-> "7"], [i \in 1..8 |-> "7"]},
   governorate : {<<>>, <<" ">>, <<"S">>},
   city : {<<>>, <<" ">>, <<"A">>}]

InitValidation ==
  /\ now = 0
  /\ users = {}
  /\ products = {}
  /\ productSeq = 0
  /\ schema \in Schemas
  /\ tokens = {}
  /\ \E b \in ProductBodies : inflight = SetToBag({b})
  /\ resp = NoResp
  /\ attempts = NoAttempts
  /\ adminDoc = NewAdminDoc

NextValidation ==
  \E b \in BagToSet(inflight) : validateProductCreation(b)

SpecValidation == InitValidation /\ [][NextValidation]_vars

\* C24: the validator rejects with 400 naming the first failing field in
\* the order name, type, condition, price, phone, governorate, city, where
\* a price fails only when it is missing or negative; a body whose fields
\* are all valid, price 0 included, is passed on.
C24_FirstFailingField ==
  [][\A b \in BagToSet(inflight) :
       resp'.op = "validateProductCreation"
         => LET priceInvalid == b.price = {} \/ \E n \in b.price : n < 0
                first == IF nameFails(b) THEN "name"
                         ELSE IF typeFails(b) THEN "type"
                         ELSE IF conditionFails(b) THEN "condition"
                         ELSE IF priceInvalid THEN "price"
                         ELSE IF phoneFails(b) THEN "phone"
                         ELSE IF governorateFails(b) THEN "governorate"
                         ELSE IF cityFails(b) THEN "city"
                         ELSE "next"
            IN  /\ resp'.arg = first
                /\ resp'.code = IF first = "next" THEN 0 ELSE 400]_vars

----------------------------------------------------------------------------
(* VerifyCode with its two awaits apart: authController.verifyOTP reads   *)
(* the account (await User.findOne), checks the code on its copy, and     *)
(* writes the copy back (await user.save()); other requests run between.  *)

\* findOne and the check of the code on the copy read.
verifyOTPFind(phone, otp) ==
  /\ \E user \in findOneUser(phone) :
       IF user = NoDoc
         THEN /\ resp' = RespondArg("verifyOTP", 404, NoCred, phone, 0, otp)
              /\ UNCHANGED inflight
       ELSE IF ~userVerifyOTP(user, otp)
         THEN /\ resp' = RespondArg("verifyOTP", 400, NoCred, phone, user._id, otp)
              /\ UNCHANGED inflight
       ELSE /\ BagCardinality(inflight) < MaxInflight
            /\ inflight' = inflight (+) SetToBag({[phone |-> phone, otp |-> otp,
                                                   user |-> user]})
            /\ resp' = NoResp
  /\ UNCHANGED <<users, products, productSeq, schema, tokens, now,
                 attempts, adminDoc>>

\* user.clearOTP(); user.lastLogin = new Date(); await user.save();
\* createSendToken(user, 200, res)
verifyOTPSave(r) ==
  /\ BagIn(r, inflight)
  /\ inflight' = inflight (-) SetToBag({r})
  /\ LET doc == [clearOTP(r.user) EXCEPT !.lastLogin = now]
     IN  /\ users' = savedUsers(r.user, doc)
         /\ tokens' = tokens \cup {signToken(doc._id, doc.role)}
         /\ resp' = RespondArg("verifyOTP", 200, signToken(doc._id, doc.role),
                               r.phone, doc._id, r.otp)
  /\ UNCHANGED <<products, productSeq, schema, now, attempts, adminDoc>>

\* The state after a Register: one account holding the code issued at 0.
InitVerify ==
  /\ now = 0
  /\ users = {generateOTP(NewUser(1, "p1"))}
  /\ products = {}
  /\ productSeq = 0
  /\ schema \in Schemas
  /\ tokens = {}
  /\ inflight = EmptyBag
  /\ resp = NoResp
  /\ attempts = NoAttempts
  /\ adminDoc = NewAdminDoc

NextVerify ==
  \/ \E phone \in Phones, otp \in OtpInputs : verifyOTPFind(phone, otp)
  \/ \E r \in BagToSet(inflight) : verifyOTPSave(r)
  \/ \E phone \in Phones : requestOTP(phone)
  \/ Tick(OtpClock)

SpecVerify == InitVerify /\ [][NextVerify]_vars

\* C25: an issued code is single-use even when VerifyCode requests overlap:
\* a VerifyCode succeeds (200, a credential issued) only while the account
\* still stores the presented code, so of two overlapping requests with the
\* same code at most one succeeds.
C25_CodeSingleUse ==
  [][(resp'.op = "verifyOTP" /\ resp'.code = 200)
       => \E u \in users : u._id = resp'.id /\ u.otp = resp'.arg]_vars

----------------------------------------------------------------------------
(* The lock of an Admin account (models/admin.js): incLoginAttempts is a  *)
(* method of a loaded document, so it decides on the copy that was read   *)
(* and writes the stored document with updateOne.                         *)

\* adminSchema.virtual('isLocked')
isLocked(doc) == doc.lockUntil # NoDate /\ doc.lockUntil > now

\* Admin.findOne(...): a request loads its copy of the document.
adminFind ==
  /\ BagCardinality(inflight) < MaxInflight
  /\ inflight' = inflight (+) SetToBag({[this |-> adminDoc]})
  /\ resp' = NoResp
  /\ UNCHANGED <<users, products, productSeq, schema, tokens, now,
                 attempts, adminDoc>>

\* this.incLoginAttempts(): $unset of both fields when the copy's lock has
\* expired; else $inc of the stored loginAttempts, with $set of lockUntil
\* when the copy reaches the threshold and is not locked.
incLoginAttempts(r) ==
  /\ BagIn(r, inflight)
  /\ inflight' = inflight (-) SetToBag({r})
  /\ IF r.this.lockUntil # NoDate /\ r.this.lockUntil < now
       THEN adminDoc' = NewAdminDoc
       ELSE /\ adminDoc.loginAttempts < MaxAttempts
            /\ adminDoc' =
                 [loginAttempts |-> adminDoc.loginAttempts + 1,
                  lockUntil |->
                    IF r.this.loginAttempts + 1 >= LockThreshold
                       /\ ~isLocked(r.this)
                      THEN now + LockLifetime
                      ELSE adminDoc.lockUntil]
  /\ resp' = NoResp
  /\ UNCHANGED <<users, products, productSeq, schema, tokens, now, attempts>>

\* Instants around the end of a lock set at 0.
LockClock == {0, LockLifetime, LockLifetime + 1}

NextAdmin ==
  \/ adminFind
  \/ \E r \in BagToSet(inflight) : incLoginAttempts(r)
  \/ Tick(LockClock)

SpecAdmin == Init /\ [][NextAdmin]_vars

\* C26: an admin account is locked after 5 failed login attempts: whenever
\* the stored loginAttempts is 5 or more, the stored document carries the
\* lock (lockUntil is set), also when incLoginAttempts calls overlap.
C26_LockedAtThreshold ==
  adminDoc.loginAttempts >= 5 => adminDoc.lockUntil # NoDate

----------------------------------------------------------------------------
\* C27: Register/Login round trip: a Login that follows a successful
\* Register (201) of the same phone is decided by the password: it succeeds
\* (200) with the registered password and is refused as a wrong password
\* (401) with any other; the request carries a phone and some password.
C27_RegisterLoginRoundTrip ==
  [][(resp.op = "registerUser" /\ resp.code = 201
      /\ resp'.op = "login" /\ resp'.phone = resp.phone)
       => resp'.code \in {200, 401}]_vars

----------------------------------------------------------------------------
(* Submit and the Edit handler with request bodies that carry a userId of *)
(* their own (0: the body has no userId field).                           *)

OwnerBodies == [phone : ListingPhones, status : {Absent}, expiresAt : {{}},
                userId : 0..MaxUsers]
OwnerPatches == [status : {Absent, "approved"}, expiresAt : {{}},
                 userId : 0..MaxUsers]

NextOwnership ==
  \/ \E cred \in Creds, body \in OwnerBodies : postProduct(cred, body)
  \/ \E cred \in Creds, id \in ProductIds, body \in OwnerPatches :
       updateProductAuthed(cred, id, body)
  \/ \E cred \in Creds, id \in ProductIds : deleteProductAuthed(cred, id)

SpecOwnership == InitOwner /\ [][NextOwnership]_vars

\* C28: a listing's owner never changes after creation: a Submit stores
\* the submitting account as owner whatever userId its body carries, and no
\* step (an Edit with any patch included) changes the owner of a stored
\* listing.
C28_OwnerNeverChanges ==
  [][/\ (resp'.op = "postProduct" /\ resp'.code = 201)
          => \E p \in products', u \in users :
               /\ p._id = resp'.id
               /\ u.phone = resp'.phone
               /\ p.userId = u._id
     /\ \A p \in products, q \in products' :
          p._id = q._id => q.userId = p.userId]_vars

----------------------------------------------------------------------------
\* C30: in every reachable account state the one-time code and its expiry
\* are set and cleared together: the stored otp is null if and only if the
\* stored otpExpires is null.
C30_CodeAndExpiryTogether ==
  \A u \in users : (u.otp = NoOtp) <=> (u.otpExpires = NoDate)

====
